---------------------------- MODULE Spec2Model ----------------------------
(***************************************************************************)
(* Model of the menu generator: the structured pipeline                    *)
(* (generate_menu.py, class MenuPDFGenerator and main) and the markup      *)
(* pipeline (generate_menu_from_html.py, generate_pdf and the script       *)
(* body).                                                                  *)
(*                                                                         *)
(* A text is a sequence of characters; a character is a one-character      *)
(* string, or the name of a code point outside ASCII ("EURO", "TIMES",     *)
(* "STAR", "BULLET", "PHONE", "MAIL", "CHECK").  A flowable of the layout  *)
(* library is a record with its kind and its constructor arguments.        *)
(* Lengths are in hundredths of a point.  TableStyle command lists and     *)
(* ParagraphStyle attributes carry no text and no block; a paragraph keeps *)
(* the name of its style only.                                             *)
(***************************************************************************)
EXTENDS Integers, Sequences, FiniteSets, TLC

VARIABLES
    story,      \* MenuPDFGenerator.story: the sequence of flowables
    files,      \* the paths that exist in the filesystem
    last,       \* the latest builder call: its name, arguments and the story length before it
    raised,     \* the exception the latest call raised, or "none"
    ncalls,     \* number of builder calls made so far
    rendered,   \* the argument of every doc.build call, in call order
    written,    \* the output files this run has written, or begun to write
    pc,         \* position of the running script, "api" when no script runs
    out,        \* standard output: the printed lines, in order
    exit_code,  \* the process exit status, or -1 while it runs
    ret,        \* value returned by generate_pdf: "unset", TRUE or FALSE
    renderer,   \* the calls made to the HTML renderer, in order
    weasyprint, \* whether the renderer module can be imported
    error       \* the text of the exception in flight in generate_pdf, or ""

vars == <<story, files, last, raised, ncalls, rendered, written, pc, out,
          exit_code, ret, renderer, weasyprint, error>>

-----------------------------------------------------------------------------
(* Bounds of the model *)

MaxCalls == 2

MaxItems == 2

-----------------------------------------------------------------------------
(* Text *)

Lower == <<"a","b","c","d","e","f","g","h","i","j","k","l","m",
           "n","o","p","q","r","s","t","u","v","w","x","y","z">>

UpperOf == <<"A","B","C","D","E","F","G","H","I","J","K","L","M",
             "N","O","P","Q","R","S","T","U","V","W","X","Y","Z">>

upper_char(c) ==
    IF \E i \in DOMAIN Lower : Lower[i] = c
    THEN UpperOf[CHOOSE i \in DOMAIN Lower : Lower[i] = c]
    ELSE c

\* a variant of upper that leaves the text as it is: C11 must tell it from upper
upper_unchanged(s) == [i \in DOMAIN s |-> s[i]]

\* str.upper()
upper(s) == [i \in DOMAIN s |-> upper_char(s[i])]

\* f"<b>{s}</b>"
bold(s) == <<"<", "b", ">">> \o s \o <<"<", "/", "b", ">">>

\* f"<i>STAR {s} STAR</i>"
info_markup(s) ==
    <<"<", "i", ">", "STAR", " ">> \o s \o <<" ", "STAR", "<", "/", "i", ">">>

-----------------------------------------------------------------------------
(* Flowables of the layout library *)

inch == 7200

Spacer(height) == [kind |-> "Spacer", height |-> height]

PageBreak == [kind |-> "PageBreak"]

Paragraph(text, style) == [kind |-> "Paragraph", text |-> text, style |-> style]

Image(path, width, height) ==
    [kind |-> "Image", path |-> path, width |-> width, height |-> height]

\* a table cell that is a plain string
Str(text) == [kind |-> "Str", text |-> text]

\* style: the names of the TableStyle commands set on the table
Table(rows, colWidths, style) ==
    [kind |-> "Table", rows |-> rows, colWidths |-> colWidths, style |-> style]

-----------------------------------------------------------------------------
(* The filesystem and the hardcoded paths *)

vegan_icon_path == "C:\\Users\\mbike\\Downloads\\vegan-sigle.jpg"

vegetarian_icon_path == "C:\\Users\\mbike\\Downloads\\vegetarian-sigle.jpg"

main_logo_path == "C:\\Users\\mbike\\.claude\\projects\\menu-project\\logo.png"

\* truth value of a path used as a condition: the empty string is false
truthy(path) == path # ""

\* a variant of exists that finds every file: C3 must tell it from exists
exists_always(path) == path = path

\* os.path.exists(path)
exists(path) == path \in files


-----------------------------------------------------------------------------
(* MenuPDFGenerator: the blocks each builder method appends *)

\* Table([['']], colWidths=[7.2*inch]) with a line above
top_border == Table(<< <<Str(<<>>)>> >>, <<(72 * inch) \div 10>>, {"LINEABOVE"})

\* Table([['']], colWidths=[7.2*inch]) with a line below
bottom_border == Table(<< <<Str(<<>>)>> >>, <<(72 * inch) \div 10>>, {"LINEBELOW"})

\* logo_path and os.path.exists(logo_path)
logo_present(logo_path) == truthy(logo_path) /\ exists(logo_path)

cover_description ==
    <<"STAR"," ","A","u","t","h","e","n","t","i","c"," ","L","e","b","a",
      "n","e","s","e"," ","&"," ","S","y","r","i","a","n"," ","C","u","i",
      "s","i","n","e"," ","STAR">>

cover_location ==
    <<"B","r","u","s","s","e","l","s",","," ","B","e","l","g","i","u","m",
      " ","BULLET"," ","2","0","2","5">>

\* a variant of cover_page_blocks that omits the os.path.exists test: C9 must
\* tell it from cover_page_blocks
cover_page_blocks_unchecked(logo_path) ==
    LET logo == Image(logo_path, (18 * inch) \div 10, (18 * inch) \div 10)
        desc == Paragraph(cover_description, "Description")
        desc_table ==
            Table(<< <<desc>> >>, <<(48 * inch) \div 10>>,
                  {"BACKGROUND", "BOX", "TOPPADDING", "BOTTOMPADDING", "ALIGN"})
        location == Paragraph(cover_location, "Location")
    IN  <<Spacer((8 * inch) \div 100), top_border, Spacer((15 * inch) \div 100)>>
        \o (IF truthy(logo_path)
            THEN <<logo, Spacer((12 * inch) \div 100)>>
            ELSE <<>>)
        \o <<desc_table, Spacer((8 * inch) \div 100), location,
             Spacer((15 * inch) \div 100), bottom_border, PageBreak>>

cover_page_blocks(logo_path) ==
    LET logo == Image(logo_path, (18 * inch) \div 10, (18 * inch) \div 10)
        desc == Paragraph(cover_description, "Description")
        desc_table ==
            Table(<< <<desc>> >>, <<(48 * inch) \div 10>>,
                  {"BACKGROUND", "BOX", "TOPPADDING", "BOTTOMPADDING", "ALIGN"})
        location == Paragraph(cover_location, "Location")
    IN  <<Spacer((8 * inch) \div 100), top_border, Spacer((15 * inch) \div 100)>>
        \o (IF logo_present(logo_path)
            THEN <<logo, Spacer((12 * inch) \div 100)>>
            ELSE <<>>)
        \o <<desc_table, Spacer((8 * inch) \div 100), location,
             Spacer((15 * inch) \div 100), bottom_border, PageBreak>>

icon_table_style ==
    {"VALIGN", "LEFTPADDING", "RIGHTPADDING", "TOPPADDING", "BOTTOMPADDING"}

\* a variant of dietary_content that tests the vegetarian flag first: C2 must
\* tell it from dietary_content
dietary_content_vegetarian_first(name, is_vegan, is_vegetarian) ==
    IF is_vegetarian /\ truthy(vegetarian_icon_path)
                     /\ exists(vegetarian_icon_path)
    THEN Table(<< <<Image(vegetarian_icon_path, 1000, 1000),
                    Paragraph(bold(name), "ItemName")>> >>,
               <<1200, (59 * inch) \div 10>>, icon_table_style)
    ELSE IF is_vegan /\ truthy(vegan_icon_path) /\ exists(vegan_icon_path)
    THEN Table(<< <<Image(vegan_icon_path, 1000, 1000),
                    Paragraph(bold(name), "ItemName")>> >>,
               <<1200, (59 * inch) \div 10>>, icon_table_style)
    ELSE Paragraph(bold(name), "ItemName")

\* the name cell of an item: the icon table of the first branch whose flag,
\* path and file all hold, else the bare name paragraph
dietary_content(name, is_vegan, is_vegetarian) ==
    IF is_vegan /\ truthy(vegan_icon_path) /\ exists(vegan_icon_path)
    THEN Table(<< <<Image(vegan_icon_path, 1000, 1000),
                    Paragraph(bold(name), "ItemName")>> >>,
               <<1200, (59 * inch) \div 10>>, icon_table_style)
    ELSE IF is_vegetarian /\ truthy(vegetarian_icon_path)
                          /\ exists(vegetarian_icon_path)
    THEN Table(<< <<Image(vegetarian_icon_path, 1000, 1000),
                    Paragraph(bold(name), "ItemName")>> >>,
               <<1200, (59 * inch) \div 10>>, icon_table_style)
    ELSE Paragraph(bold(name), "ItemName")

menu_item_blocks(name, description, price, is_vegan, is_vegetarian) ==
    LET item_data ==
            << <<dietary_content(name, is_vegan, is_vegetarian),
                 Paragraph(bold(price), "Price")>>,
               <<Paragraph(description, "ItemDesc"), Str(<<>>)>> >>
        item_table ==
            Table(item_data, <<(59 * inch) \div 10, (13 * inch) \div 10>>,
                  {"VALIGN", "LEFTPADDING", "RIGHTPADDING", "TOPPADDING",
                   "BOTTOMPADDING", "BACKGROUND", "BOX", "LINEBELOW"})
    IN  <<item_table, Spacer(inch \div 100)>>

section_header_blocks(title) ==
    LET header_table ==
            Table(<< <<Paragraph(upper(title), "SectionHeader")>> >>,
                  <<(72 * inch) \div 10>>,
                  {"BACKGROUND", "BOX", "TOPPADDING", "BOTTOMPADDING",
                   "LEFTPADDING", "RIGHTPADDING"})
    IN  <<top_border, header_table, bottom_border, Spacer((2 * inch) \div 100)>>

\* item.get(key, False)
get(item, key) == IF key \in DOMAIN item THEN item[key] ELSE FALSE

\* item['name'], item['description'], item['price'] all succeed
has_required_keys(item) == {"name", "description", "price"} \subseteq DOMAIN item

RECURSIVE section_loop_reversed(_, _)
\* a variant of section_loop that takes the items last to first: C1 must tell
\* it from section_loop
section_loop_reversed(s, items) ==
    IF items = <<>>
    THEN [story |-> s, raised |-> "none"]
    ELSE LET item == items[Len(items)]
         IN  IF ~ has_required_keys(item)
             THEN [story |-> s, raised |-> "KeyError"]
             ELSE section_loop_reversed(
                      s \o menu_item_blocks(item.name, item.description, item.price,
                                            get(item, "is_vegan"),
                                            get(item, "is_vegetarian")),
                      SubSeq(items, 1, Len(items) - 1))

RECURSIVE section_loop(_, _)
\* the for loop of add_section run on `items` with the story at s: the story
\* it leaves and the exception it ends with
section_loop(s, items) ==
    IF items = <<>>
    THEN [story |-> s, raised |-> "none"]
    ELSE LET item == Head(items)
         IN  IF ~ has_required_keys(item)
             THEN [story |-> s, raised |-> "KeyError"]
             ELSE section_loop(
                      s \o menu_item_blocks(item.name, item.description, item.price,
                                            get(item, "is_vegan"),
                                            get(item, "is_vegetarian")),
                      Tail(items))

\* a variant of section_result that restores the story when an item raises:
\* C14 must tell it from section_result
section_result_atomic(s, title, items) ==
    LET r == section_loop(s \o section_header_blocks(title), items)
    IN  IF r.raised = "none"
        THEN [story |-> r.story \o <<Spacer((3 * inch) \div 100)>>, raised |-> "none"]
        ELSE [story |-> s, raised |-> r.raised]

\* the story and the exception add_section(title, items) ends with
section_result(s, title, items) ==
    LET r == section_loop(s \o section_header_blocks(title), items)
    IN  IF r.raised = "none"
        THEN [story |-> r.story \o <<Spacer((3 * inch) \div 100)>>, raised |-> "none"]
        ELSE r

info_box_blocks(text) ==
    LET info_content == Paragraph(info_markup(text), "InfoBox")
        info_table ==
            Table(<< <<info_content>> >>, <<(72 * inch) \div 10>>,
                  {"BACKGROUND", "BOX", "TOPPADDING", "BOTTOMPADDING",
                   "LEFTPADDING", "RIGHTPADDING"})
    IN  <<info_table, Spacer((3 * inch) \div 100)>>

contact_title_text ==
    <<"V","i","s","i","t"," ","U","s">>

contact_info ==
    <<"NL"," "," "," "," "," "," "," "," ","<","b",">","<","f","o","n","t",
      " ","s","i","z","e","=","\"","1","3","\""," ","c","o","l","o","r","=",
      "\"","#","1","a","5","d","3","f","\"",">","E","a","s","t"," ","@"," ",
      "W","e","s","t"," ","R","e","s","t","a","u","r","a","n","t","<","/",
      "f","o","n","t",">","<","/","b",">","<","b","r","/",">","NL"," "," ",
      " "," "," "," "," "," ","<","b","r","/",">","NL"," "," "," "," "," ",
      " "," "," ","<","f","o","n","t"," ","s","i","z","e","=","\"","9","\"",
      ">","B","l","d"," ","d","e"," ","l","'","E","m","p","e","r","e","u",
      "r"," ","2","6"," ","BULLET"," ","1","0","0","0"," ","B","r","u","s",
      "s","e","l","s"," ","BULLET"," ","B","e","l","g","i","u","m","<","/",
      "f","o","n","t",">","<","b","r","/",">","NL"," "," "," "," "," "," ",
      " "," ","<","b","r","/",">","NL"," "," "," "," "," "," "," "," ","<",
      "b",">","<","f","o","n","t"," ","c","o","l","o","r","=","\"","#","1",
      "a","5","d","3","f","\"",">","PHONE","<","/","f","o","n","t",">","<",
      "/","b",">"," ","<","f","o","n","t"," ","s","i","z","e","=","\"","9",
      "\"",">","+","3","2"," ","4","6","5"," ","2","0"," ","6","0"," ","2",
      "4","<","/","f","o","n","t",">"," ","BULLET"," ","NL"," "," "," "," ",
      " "," "," "," ","<","b",">","<","f","o","n","t"," ","c","o","l","o",
      "r","=","\"","#","1","a","5","d","3","f","\"",">","MAIL","<","/","f",
      "o","n","t",">","<","/","b",">"," ","<","f","o","n","t"," ","s","i",
      "z","e","=","\"","9","\"",">","c","o","n","t","a","c","t","@","e","a",
      "s","t","a","t","w","e","s","t",".","c","o","m","<","/","f","o","n",
      "t",">","NL"," "," "," "," "," "," "," "," ">>

button_text ==
    <<"B","O","O","K"," ","A"," ","T","A","B","L","E">>

footer_msg_text ==
    <<"<","i",">","W","e"," ","l","o","o","k"," ","f","o","r","w","a","r",
      "d"," ","t","o"," ","s","e","r","v","i","n","g"," ","y","o","u","!",
      "<","/","i",">">>

\* a variant of contact_page_blocks with the page break after the footer: C10
\* must tell it from contact_page_blocks
contact_page_blocks_break_last(logo_path) ==
    LET title_table ==
            Table(<< <<Paragraph(contact_title_text, "ContactTitle")>> >>,
                  <<(72 * inch) \div 10>>,
                  {"BACKGROUND", "BOX", "TOPPADDING", "BOTTOMPADDING"})
        contact_table ==
            Table(<< <<Paragraph(contact_info, "ContactDetails")>> >>,
                  <<(62 * inch) \div 10>>,
                  {"BACKGROUND", "BOX", "TOPPADDING", "BOTTOMPADDING",
                   "LEFTPADDING", "RIGHTPADDING"})
        button_table ==
            Table(<< <<Paragraph(button_text, "Button")>> >>,
                  <<(25 * inch) \div 10>>,
                  {"BACKGROUND", "BOX", "TOPPADDING", "BOTTOMPADDING", "ALIGN"})
        footer_msg == Paragraph(footer_msg_text, "FooterMsg")
        footer_logo == Image(logo_path, (9 * inch) \div 10, (9 * inch) \div 10)
    IN  <<Spacer((3 * inch) \div 10), title_table,
          Spacer((15 * inch) \div 100), contact_table,
          Spacer((15 * inch) \div 100), button_table,
          Spacer((12 * inch) \div 100), footer_msg, Spacer((2 * inch) \div 10)>>
        \o (IF logo_present(logo_path) THEN <<footer_logo>> ELSE <<>>)
        \o <<PageBreak>>

contact_page_blocks(logo_path) ==
    LET title_table ==
            Table(<< <<Paragraph(contact_title_text, "ContactTitle")>> >>,
                  <<(72 * inch) \div 10>>,
                  {"BACKGROUND", "BOX", "TOPPADDING", "BOTTOMPADDING"})
        contact_table ==
            Table(<< <<Paragraph(contact_info, "ContactDetails")>> >>,
                  <<(62 * inch) \div 10>>,
                  {"BACKGROUND", "BOX", "TOPPADDING", "BOTTOMPADDING",
                   "LEFTPADDING", "RIGHTPADDING"})
        button_table ==
            Table(<< <<Paragraph(button_text, "Button")>> >>,
                  <<(25 * inch) \div 10>>,
                  {"BACKGROUND", "BOX", "TOPPADDING", "BOTTOMPADDING", "ALIGN"})
        footer_msg == Paragraph(footer_msg_text, "FooterMsg")
        footer_logo == Image(logo_path, (9 * inch) \div 10, (9 * inch) \div 10)
    IN  <<PageBreak, Spacer((3 * inch) \div 10), title_table,
          Spacer((15 * inch) \div 100), contact_table,
          Spacer((15 * inch) \div 100), button_table,
          Spacer((12 * inch) \div 100), footer_msg, Spacer((2 * inch) \div 10)>>
        \o (IF logo_present(logo_path) THEN <<footer_logo>> ELSE <<>>)

-----------------------------------------------------------------------------
(* MenuPDFGenerator: the builder methods as steps on the story *)

add_cover_page(logo_path) ==
    /\ story' = story \o cover_page_blocks(logo_path)
    /\ raised' = "none"
    /\ last' = [op |-> "add_cover_page", base |-> Len(story),
                args |-> [logo_path |-> logo_path]]

add_menu_item(name, description, price, is_vegan, is_vegetarian) ==
    /\ story' = story \o menu_item_blocks(name, description, price,
                                          is_vegan, is_vegetarian)
    /\ raised' = "none"
    /\ last' = [op |-> "add_menu_item", base |-> Len(story),
                args |-> [name |-> name, description |-> description,
                          price |-> price, is_vegan |-> is_vegan,
                          is_vegetarian |-> is_vegetarian]]

add_section(title, items) ==
    LET r == section_result(story, title, items)
    IN  /\ story' = r.story
        /\ raised' = r.raised
        /\ last' = [op |-> "add_section", base |-> Len(story),
                    args |-> [title |-> title, items |-> items]]

\* a variant of add_info_box that puts its blocks at the head of the story: C7
\* must tell it from add_info_box
add_info_box_at_head(text) ==
    /\ story' = info_box_blocks(text) \o story
    /\ raised' = "none"
    /\ last' = [op |-> "add_info_box", base |-> Len(story),
                args |-> [text |-> text]]

add_info_box(text) ==
    /\ story' = story \o info_box_blocks(text)
    /\ raised' = "none"
    /\ last' = [op |-> "add_info_box", base |-> Len(story),
                args |-> [text |-> text]]

add_contact_page(logo_path) ==
    /\ story' = story \o contact_page_blocks(logo_path)
    /\ raised' = "none"
    /\ last' = [op |-> "add_contact_page", base |-> Len(story),
                args |-> [logo_path |-> logo_path]]

-----------------------------------------------------------------------------
(* Inputs of the builder calls *)

AssetPaths == {main_logo_path, vegan_icon_path, vegetarian_icon_path}

LogoPaths == {"", main_logo_path}

hummus ==
    [name |-> <<"H","u","m","m","u","s">>,
     description |-> <<"C","h","i","c","k","p","e","a"," ","p","u","r","e","e">>,
     price |-> <<"7",",","5","0","EURO">>,
     is_vegan |-> TRUE]

zahra ==
    [name |-> <<"Z","a","h","r","a">>,
     description |-> <<"C","a","u","l","i","f","l","o","w","e","r">>,
     price |-> <<"8","EURO">>,
     is_vegetarian |-> TRUE]

\* an item without its price key
unpriced ==
    [name |-> <<"K","i","b","b","e","h">>,
     description |-> <<"C","r","o","q","u","e","t","t","e","s">>]

ItemPool == {hummus, zahra, unpriced}

Titles == {<<"C","o","l","d"," ","M","e","z","z","e","s">>}

InfoTexts == {<<"S","e","r","v","e","s"," ","2">>}

RECURSIVE ListsUpTo(_, _)
\* the sequences over S of length at most n
ListsUpTo(S, n) ==
    IF n = 0 THEN {<<>>}
    ELSE LET shorter == ListsUpTo(S, n - 1)
         IN  shorter \cup {Append(l, x) : l \in shorter, x \in S}

ItemLists == ListsUpTo(ItemPool, MaxItems)

-----------------------------------------------------------------------------
(* Spec: any sequence of builder calls on a new MenuPDFGenerator *)

\* generate_pdf has not been called and the HTML renderer is not in use
html_idle ==
    /\ ret = "unset"
    /\ renderer = <<>>
    /\ weasyprint = "unused"
    /\ error = ""

\* a new MenuPDFGenerator("east_west_menu.pdf")
new_generator ==
    /\ story = <<>>
    /\ last = [op |-> "__init__", base |-> 0,
               args |-> [filename |-> "east_west_menu.pdf"]]
    /\ raised = "none"
    /\ ncalls = 0
    /\ rendered = <<>>
    /\ written = {}

Init ==
    /\ new_generator
    /\ files \in SUBSET AssetPaths
    /\ pc = "api"
    /\ out = <<>>
    /\ exit_code = -1
    /\ html_idle

counted ==
    /\ ncalls < MaxCalls
    /\ ncalls' = ncalls + 1
    /\ UNCHANGED <<files, rendered, written, pc, out, exit_code,
                   ret, renderer, weasyprint, error>>

call_add_cover_page ==
    /\ counted
    /\ \E logo_path \in LogoPaths : add_cover_page(logo_path)

call_add_menu_item ==
    /\ counted
    /\ \E is_vegan \in BOOLEAN, is_vegetarian \in BOOLEAN :
           add_menu_item(hummus.name, hummus.description, hummus.price,
                         is_vegan, is_vegetarian)

call_add_section ==
    /\ counted
    /\ \E title \in Titles, items \in ItemLists : add_section(title, items)

call_add_info_box ==
    /\ counted
    /\ \E text \in InfoTexts : add_info_box(text)

call_add_contact_page ==
    /\ counted
    /\ \E logo_path \in LogoPaths : add_contact_page(logo_path)

Next ==
    \/ call_add_cover_page
    \/ call_add_menu_item
    \/ call_add_section
    \/ call_add_info_box
    \/ call_add_contact_page

Spec == Init /\ [][Next]_vars

-----------------------------------------------------------------------------
(* MainSpec: one run of generate_menu.py *)

\* main, lines 432-441
cold_mezzes ==
  <<
    [name |->
        <<"Z","a","h","r","a">>,
     description |->
        <<"C","o","o","k","e","d"," ","c","a","u","l","i","f","l","o","w",
          "e","r",","," ","m","a","r","i","n","a","t","e","d"," ","i","n",
          " ","a"," ","h","o","m","e","m","a","d","e"," ","s","a","u","c",
          "e"," ","(","t","o","m","a","t","o",","," ","g","a","r","l","i",
          "c"," ","a","n","d"," ","l","e","m","o","n",")",","," ","t","o",
          "p","p","e","d"," ","w","i","t","h"," ","l","e","m","o","n"," ",
          "t","a","h","i","n","i"," ","s","a","u","c","e">>,
     price |->
        <<"7",",","5","0","EURO">>,
     is_vegetarian |-> TRUE],
    [name |->
        <<"M","u","h","a","m","m","a","r","a">>,
     description |->
        <<"G","r","i","l","l","e","d"," ","r","e","d"," ","p","e","p","p",
          "e","r"," ","d","i","p",","," ","p","o","m","e","g","r","a","n",
          "a","t","e"," ","m","o","l","a","s","s","e","s"," ","a","n","d",
          " ","w","a","l","n","u","t","s">>,
     price |->
        <<"8","EURO">>,
     is_vegan |-> TRUE],
    [name |->
        <<"M","a","k","d","o","u","s">>,
     description |->
        <<"B","a","b","y"," ","e","g","g","p","l","a","n","t","s"," ","s",
          "t","u","f","f","e","d"," ","w","i","t","h"," ","w","a","l","n",
          "u","t","s"," ","a","n","d"," ","p","e","p","p","e","r","s"," ",
          "m","a","r","i","n","a","t","e","d"," ","i","n"," ","o","l","i",
          "v","e"," ","o","i","l">>,
     price |->
        <<"8","EURO">>,
     is_vegan |-> TRUE],
    [name |->
        <<"I","t","c","h">>,
     description |->
        <<"B","u","l","g","u","r"," ","c","o","o","k","e","d"," ","i","n",
          " ","t","o","m","a","t","o"," ","s","a","u","c","e"," ","w","i",
          "t","h"," ","p","e","p","p","e","r","s",","," ","o","n","i","o",
          "n",","," ","p","a","r","s","l","e","y"," ","a","n","d"," ","p",
          "o","m","e","g","r","a","n","a","t","e"," ","m","o","l","a","s",
          "s","e","s">>,
     price |->
        <<"7",",","5","0","EURO">>,
     is_vegan |-> TRUE],
    [name |->
        <<"H","u","m","m","u","s">>,
     description |->
        <<"C","h","i","c","k","p","e","a"," ","p","u","r","e","e"," ","w",
          "i","t","h"," ","t","a","h","i","n","i"," ","(","s","e","s","a",
          "m","e"," ","p","a","s","t","e",")">>,
     price |->
        <<"7",",","5","0","EURO">>,
     is_vegan |-> TRUE],
    [name |->
        <<"M","o","u","t","a","b","a","l">>,
     description |->
        <<"G","r","i","l","l","e","d"," ","e","g","g","p","l","a","n","t",
          " ","c","a","v","i","a","r"," ","w","i","t","h"," ","t","a","h",
          "i","n","i"," ","(","s","e","s","a","m","e"," ","p","a","s","t",
          "e",")">>,
     price |->
        <<"8","EURO">>,
     is_vegan |-> TRUE],
    [name |->
        <<"W","a","r","a","k"," ","E","n","a","b">>,
     description |->
        <<"V","i","n","e"," ","l","e","a","v","e","s"," ","s","t","u","f",
          "f","e","d"," ","w","i","t","h"," ","r","i","c","e",","," ","h",
          "e","r","b","s",","," ","m","a","r","i","n","a","t","e","d"," ",
          "i","n"," ","o","l","i","v","e"," ","o","i","l",","," ","m","i",
          "n","t"," ","a","n","d"," ","p","o","m","e","g","r","a","n","a",
          "t","e"," ","m","o","l","a","s","s","e","s">>,
     price |->
        <<"7","EURO">>,
     is_vegan |-> TRUE],
    [name |->
        <<"M","o","u","s","s","a","k","a">>,
     description |->
        <<"E","g","g","p","l","a","n","t",","," ","o","n","i","o","n",",",
          " ","c","h","i","c","k","p","e","a","s"," ","a","n","d"," ","t",
          "o","m","a","t","o">>,
     price |->
        <<"7",",","5","0","EURO">>,
     is_vegan |-> TRUE]
  >>

\* main, lines 446-458
warm_mezzes ==
  <<
    [name |->
        <<"O","r","i","e","n","t","a","l"," ","E","g","g","p","l","a","n",
          "t">>,
     description |->
        <<"G","r","i","l","l","e","d"," ","e","g","g","p","l","a","n","t",
          " ","t","o","p","p","e","d"," ","w","i","t","h"," ","m","i","n",
          "c","e","d"," ","m","e","a","t"," ","c","o","o","k","e","d"," ",
          "w","i","t","h"," ","o","n","i","o","n",","," ","t","o","m","a",
          "t","o"," ","a","n","d"," ","p","e","p","p","e","r">>,
     price |->
        <<"1","3",",","5","0","EURO">>],
    [name |->
        <<"C","h","i","c","k","e","n"," ","L","i","v","e","r">>,
     description |->
        <<"C","h","i","c","k","e","n"," ","l","i","v","e","r"," ","c","o",
          "o","k","e","d"," ","w","i","t","h"," ","o","n","i","o","n"," ",
          "a","n","d"," ","s","p","e","c","i","a","l"," ","s","p","i","c",
          "e","s","."," ","S","e","r","v","e","d"," ","w","i","t","h"," ",
          "p","o","m","e","g","r","a","n","a","t","e"," ","s","a","u","c",
          "e">>,
     price |->
        <<"1","1",",","5","0","EURO">>],
    [name |->
        <<"F","a","t","t","e","h">>,
     description |->
        <<"C","o","o","k","e","d"," ","c","h","i","c","k","p","e","a","s",
          ","," ","f","r","i","e","d"," ","L","e","b","a","n","e","s","e",
          " ","b","r","e","a","d",","," ","g","a","r","l","i","c"," ","a",
          "n","d"," ","h","o","m","e","m","a","d","e"," ","l","e","m","o",
          "n"," ","t","a","h","i","n","i"," ","s","a","u","c","e">>,
     price |->
        <<"7",",","5","0","EURO">>,
     is_vegetarian |-> TRUE],
    [name |->
        <<"F","a","l","a","f","e","l"," ","(","2"," ","p","c","s",")">>,
     description |->
        <<"F","r","i","e","d"," ","c","h","i","c","k","p","e","a"," ","b",
          "a","l","l","s"," ","s","e","r","v","e","d"," ","w","i","t","h",
          " ","t","a","h","i","n","i"," ","s","a","u","c","e">>,
     price |->
        <<"4","EURO">>,
     is_vegan |-> TRUE],
    [name |->
        <<"G","r","i","l","l","e","d"," ","S","y","r","i","a","n"," ","C",
          "h","e","e","s","e">>,
     description |->
        <<"G","r","i","l","l","e","d"," ","S","y","r","i","a","n"," ","c",
          "h","e","e","s","e">>,
     price |->
        <<"1","0","EURO">>,
     is_vegetarian |-> TRUE],
    [name |->
        <<"K","i","b","b","e","h"," ","(","2"," ","p","c","s",")">>,
     description |->
        <<"F","r","i","e","d"," ","b","u","l","g","u","r"," ","c","r","o",
          "q","u","e","t","t","e","s"," ","s","t","u","f","f","e","d"," ",
          "w","i","t","h"," ","m","i","n","c","e","d"," ","m","e","a","t",
          ","," ","o","n","i","o","n"," ","a","n","d"," ","w","a","l","n",
          "u","t","s">>,
     price |->
        <<"7","EURO">>],
    [name |->
        <<"S","u","j","u","k">>,
     description |->
        <<"O","v","e","n","-","b","a","k","e","d"," ","L","e","b","a","n",
          "e","s","e"," ","b","r","e","a","d"," ","s","t","u","f","f","e",
          "d"," ","w","i","t","h"," ","s","e","a","s","o","n","e","d"," ",
          "m","i","n","c","e","d"," ","m","e","a","t",","," ","t","o","m",
          "a","t","o"," ","a","n","d"," ","p","i","c","k","l","e","s">>,
     price |->
        <<"1","2",",","5","0","EURO">>],
    [name |->
        <<"A","r","a","y","e","s"," ","C","h","e","e","s","e">>,
     description |->
        <<"O","v","e","n","-","b","a","k","e","d"," ","L","e","b","a","n",
          "e","s","e"," ","b","r","e","a","d"," ","s","t","u","f","f","e",
          "d"," ","w","i","t","h"," ","S","y","r","i","a","n"," ","c","h",
          "e","e","s","e">>,
     price |->
        <<"1","0","EURO">>,
     is_vegetarian |-> TRUE],
    [name |->
        <<"T","o","s","h","k","a">>,
     description |->
        <<"O","v","e","n","-","b","a","k","e","d"," ","L","e","b","a","n",
          "e","s","e"," ","b","r","e","a","d"," ","s","t","u","f","f","e",
          "d"," ","w","i","t","h"," ","m","i","n","c","e","d"," ","m","e",
          "a","t"," ","a","n","d"," ","S","y","r","i","a","n"," ","c","h",
          "e","e","s","e">>,
     price |->
        <<"1","2",",","5","0","EURO">>],
    [name |->
        <<"B","a","t","a","t","a"," ","H","a","r","r","a">>,
     description |->
        <<"F","r","i","e","d"," ","p","o","t","a","t","o"," ","c","u","b",
          "e","s"," ","w","i","t","h"," ","r","e","d"," ","p","e","p","p",
          "e","r","s",","," ","c","o","r","i","a","n","d","e","r"," ","a",
          "n","d"," ","g","a","r","l","i","c">>,
     price |->
        <<"7",",","5","0","EURO">>,
     is_vegan |-> TRUE],
    [name |->
        <<"F","o","u","l"," ","M","o","u","d","a","m","a","s">>,
     description |->
        <<"F","a","v","a"," ","b","e","a","n","s"," ","m","a","r","i","n",
          "a","t","e","d"," ","w","i","t","h"," ","l","e","m","o","n"," ",
          "j","u","i","c","e",","," ","t","o","m","a","t","o","e","s",",",
          " ","c","u","m","i","n",","," ","g","a","r","l","i","c",","," ",
          "o","l","i","v","e"," ","o","i","l"," ","a","n","d"," ","t","a",
          "h","i","n","i"," ","s","a","u","c","e">>,
     price |->
        <<"8","EURO">>,
     is_vegan |-> TRUE]
  >>

\* main, lines 465-470
tasting_menus ==
  <<
    [name |->
        <<"M","e","n","u"," ","E","a","s","t","@","W","e","s","t">>,
     description |->
        <<"F","a","t","t","o","u","s","h",","," ","H","u","m","m","u","s",
          ","," ","M","o","u","t","a","b","a","l",","," ","Z","a","h","r",
          "a",","," ","F","a","l","a","f","e","l",","," ","2","TIMES"," ",
          "K","i","b","b","e","h",","," ","2","TIMES"," ","K","a","b","a",
          "b"," ","s","k","e","w","e","r","s",","," ","2","TIMES"," ","C",
          "h","i","c","h"," ","t","a","o","u","k",","," ","2","TIMES"," ",
          "D","e","s","s","e","r","t">>,
     price |->
        <<"6","7",",","5","0","EURO">>],
    [name |->
        <<"M","e","n","u"," ","V","e","g","a","n">>,
     description |->
        <<"F","a","t","t","o","u","s","h",","," ","H","u","m","m","u","s",
          ","," ","M","o","u","t","a","b","a","l",","," ","M","o","u","s",
          "s","a","k","a",","," ","I","t","c","h",","," ","Z","a","h","r",
          "a",","," ","2","TIMES"," ","F","a","l","a","f","e","l",","," ",
          "B","a","t","a","t","a"," ","H","a","r","r","a",","," ","2",
          "TIMES"," ","D","e","s","s","e","r","t">>,
     price |->
        <<"6","4",",","5","0","EURO">>,
     is_vegan |-> TRUE],
    [name |->
        <<"M","e","n","u"," ","S","a","h","t","e","n">>,
     description |->
        <<"T","a","b","o","u","l","e","h",","," ","H","u","m","m","u","s",
          ","," ","T","o","s","h","k","a",","," ","S","u","j","u","k",",",
          " ","C","h","i","c","k","e","n"," ","l","i","v","e","r",","," ",
          "2","TIMES"," ","K","i","b","b","e","h",","," ","2","TIMES"," ",
          "S","k","e","w","e","r","s",","," ","2","TIMES"," ","D","e","s",
          "s","e","r","t">>,
     price |->
        <<"8","4","EURO">>],
    [name |->
        <<"M","e","n","u"," ","L","a","z","e","e","z">>,
     description |->
        <<"T","a","b","o","u","l","e","h",","," ","H","u","m","m","u","s",
          ","," ","M","o","u","t","a","b","a","l",","," ","M","u","h","a",
          "m","m","a","r","a",","," ","W","a","r","a","k"," ","E","n","a",
          "b",","," ","M","o","u","s","s","a","k","a",","," ","F","o","u",
          "l"," ","M","o","u","d","a","m","a","s",","," ","2","TIMES"," ",
          "F","a","l","a","f","e","l",","," ","2","TIMES"," ","D","e","s",
          "s","e","r","t">>,
     price |->
        <<"6","5",",","5","0","EURO">>,
     is_vegan |-> TRUE]
  >>

\* main, lines 475-479
dishes ==
  <<
    [name |->
        <<"F","o","o","d","i","e"," ","M","e","a","t">>,
     description |->
        <<"H","u","m","m","u","s",","," ","Z","a","h","r","a",","," ","K",
          "i","b","b","e","h",","," ","1","TIMES"," ","C","h","i","c","h",
          " ","t","a","o","u","k",","," ","1","TIMES"," ","K","a","b","a",
          "b",","," ","F","o","u","l"," ","m","o","u","d","a","m","a","s",
          ","," ","F","a","t","t","o","u","c","h">>,
     price |->
        <<"2","4","EURO">>],
    [name |->
        <<"F","o","o","d","i","e"," ","V","e","g","a","n">>,
     description |->
        <<"H","u","m","m","u","s",","," ","Z","a","h","r","a",","," ","2",
          "TIMES"," ","W","a","r","a","k"," ","e","n","e","b",","," ","2",
          "TIMES"," ","F","a","l","a","f","e","l",","," ","B","a","t","a",
          "t","a"," ","h","a","r","r","a",","," ","F","o","u","l"," ","m",
          "o","u","d","a","m","a","s",","," ","F","a","t","t","o","u","c",
          "h">>,
     price |->
        <<"2","4","EURO">>,
     is_vegan |-> TRUE],
    [name |->
        <<"C","h","e","f","'","s"," ","M","e","z","z","e">>,
     description |->
        <<"G","r","i","l","l","e","d"," ","m","i","n","c","e","d"," ","m",
          "e","a","t"," ","w","i","t","h"," ","m","u","s","h","r","o","o",
          "m","s",","," ","o","n","i","o","n",","," ","l","e","m","o","n",
          " ","t","a","h","i","n","i"," ","s","a","u","c","e"," ","a","n",
          "d"," ","p","a","r","s","l","e","y">>,
     price |->
        <<"1","3",",","5","0","EURO">>]
  >>

\* main, lines 486-489
skewers ==
  <<
    [name |->
        <<"2","TIMES"," ","S","h","i","s","h"," ","T","a","o","u","k">>,
     description |->
        <<"C","h","i","c","k","e","n"," ","s","k","e","w","e","r","s">>,
     price |->
        <<"1","0","EURO">>],
    [name |->
        <<"2","TIMES"," ","K","e","b","a","b">>,
     description |->
        <<"B","e","e","f"," ","s","k","e","w","e","r","s">>,
     price |->
        <<"1","0","EURO">>]
  >>

\* main, lines 496-506
lunch_dishes ==
  <<
    [name |->
        <<"C","h","e","f","'","s"," ","D","i","s","h">>,
     description |->
        <<"1"," ","k","e","b","a","b",","," ","1"," ","c","h","i","c","h",
          " ","t","a","o","u","k",","," ","w","a","r","a","k"," ","e","n",
          "e","b",","," ","k","i","b","b","e","h",","," ","c","a","u","l",
          "i","f","l","o","w","e","r",","," ","m","u","h","a","m","m","a",
          "r","a",","," ","f","a","t","t","o","u","c","h">>,
     price |->
        <<"2","3",",","5","0","EURO">>],
    [name |->
        <<"S","u","j","u","k">>,
     description |->
        <<"L","e","b","a","n","e","s","e"," ","b","r","e","a","d"," ","s",
          "t","u","f","f","e","d"," ","w","i","t","h"," ","m","i","n","c",
          "e","d"," ","m","e","a","t",","," ","t","o","m","a","t","o",",",
          " ","p","i","c","k","l","e","s"," ","+"," ","h","u","m","m","u",
          "s",","," ","m","o","u","t","a","b","a","l",","," ","F","a","t",
          "t","o","u","s","h">>,
     price |->
        <<"2","0",",","8","0","EURO">>],
    [name |->
        <<"T","o","s","h","k","a">>,
     description |->
        <<"L","e","b","a","n","e","s","e"," ","b","r","e","a","d"," ","s",
          "t","u","f","f","e","d"," ","w","i","t","h"," ","m","i","n","c",
          "e","d"," ","m","e","a","t"," ","a","n","d"," ","S","y","r","i",
          "a","n"," ","c","h","e","e","s","e"," ","+"," ","h","u","m","m",
          "u","s",","," ","m","o","u","t","a","b","a","l",","," ","F","a",
          "t","t","o","u","s","h">>,
     price |->
        <<"2","0",",","8","0","EURO">>],
    [name |->
        <<"C","h","i","c","h"," ","T","a","o","u","k">>,
     description |->
        <<"2"," ","c","h","i","c","k","e","n"," ","s","k","e","w","e","r",
          "s"," ","+"," ","h","u","m","m","u","s",","," ","i","t","c","h",
          " ","(","b","u","l","g","u","r",")",","," ","f","a","t","t","o",
          "u","s","h",","," ","p","i","c","k","l","e","s",","," ","g","a",
          "r","l","i","c"," ","s","a","u","c","e">>,
     price |->
        <<"1","9","EURO">>],
    [name |->
        <<"M","i","x"," ","G","r","i","l","l">>,
     description |->
        <<"1"," ","k","e","b","a","b"," ","a","n","d"," ","1"," ","c","h",
          "i","c","h"," ","t","a","o","u","k"," ","+"," ","h","u","m","m",
          "u","s",","," ","i","t","c","h"," ","(","b","u","l","g","u","r",
          ")",","," ","f","a","t","t","o","u","s","h">>,
     price |->
        <<"1","9","EURO">>],
    [name |->
        <<"K","e","b","a","b">>,
     description |->
        <<"2"," ","s","e","a","s","o","n","e","d"," ","m","i","n","c","e",
          "d"," ","m","e","a","t"," ","s","k","e","w","e","r","s"," ","+",
          " ","h","u","m","m","u","s",","," ","f","a","t","t","o","u","s",
          "h">>,
     price |->
        <<"1","9","EURO">>],
    [name |->
        <<"M","i","x"," ","B","r","e","a","k">>,
     description |->
        <<"H","u","m","m","u","s",","," ","i","t","c","h"," ","(","b","u",
          "l","g","u","r",")",","," ","k","a","b","a","b","/","c","h","i",
          "c","h"," ","t","a","o","u","k",","," ","c","a","u","l","i","f",
          "l","o","w","e","r",","," ","f","a","t","t","o","u","c","h">>,
     price |->
        <<"1","6",",","5","0","EURO">>],
    [name |->
        <<"F","a","l","a","f","e","l">>,
     description |->
        <<"4"," ","p","i","e","c","e","s"," ","f","a","l","a","f","e","l",
          " ","+"," ","h","u","m","m","u","s",","," ","m","o","u","t","a",
          "b","a","l",","," ","F","a","t","t","o","u","s","h",","," ","t",
          "a","h","i","n","i"," ","s","a","u","c","e",","," ","p","i","c",
          "k","l","e","s">>,
     price |->
        <<"1","8","EURO">>,
     is_vegan |-> TRUE],
    [name |->
        <<"M","i","x"," ","B","r","e","a","k"," ","V","e","g","a","n">>,
     description |->
        <<"H","u","m","m","u","s",","," ","w","a","r","a","k"," ","e","n",
          "e","b",","," ","i","t","c","h"," ","(","b","u","l","g","u","r",
          ")",","," ","c","a","u","l","i","f","l","o","w","e","r",","," ",
          "f","a","t","t","o","u","c","h">>,
     price |->
        <<"1","4",",","5","0","EURO">>,
     is_vegan |-> TRUE]
  >>

\* main, lines 511-515
sandwiches ==
  <<
    [name |->
        <<"F","a","l","a","f","e","l"," ","S","a","n","d","w","i","c","h",
          " ","+"," ","F","a","t","t","o","u","s","h"," ","S","a","l","a",
          "d">>,
     description |->
        <<"F","a","l","a","f","e","l",","," ","t","o","m","a","t","o",",",
          " ","t","a","h","i","n","i",","," ","p","i","c","k","l","e","s",
          ","," ","l","e","t","t","u","c","e">>,
     price |->
        <<"1","2",",","5","0","EURO">>,
     is_vegan |-> TRUE],
    [name |->
        <<"C","h","i","c","h"," ","T","a","o","u","k"," ","+"," ","F","a",
          "t","t","o","u","s","h"," ","S","a","l","a","d">>,
     description |->
        <<"G","r","i","l","l","e","d"," ","c","h","i","c","k","e","n",",",
          " ","l","e","t","t","u","c","e",","," ","t","o","m","a","t","o",
          ","," ","g","a","r","l","i","c"," ","s","a","u","c","e">>,
     price |->
        <<"1","2",",","5","0","EURO">>],
    [name |->
        <<"K","a","b","a","b"," ","+"," ","F","a","t","t","o","u","s","h",
          " ","S","a","l","a","d">>,
     description |->
        <<"M","i","n","c","e","d"," ","m","e","a","t",","," ","h","u","m",
          "m","u","s",","," ","t","o","m","a","t","o",","," ","l","e","t",
          "t","u","c","e",","," ","o","n","i","o","n">>,
     price |->
        <<"1","2",",","5","0","EURO">>]
  >>

\* main, lines 520-524
salads ==
  <<
    [name |->
        <<"O","r","i","g","i","n","a","l"," ","T","a","b","o","u","l","e",
          "h">>,
     description |->
        <<"P","a","r","s","l","e","y",","," ","t","o","m","a","t","o",",",
          " ","o","n","i","o","n",","," ","l","e","m","o","n",","," ","b",
          "u","l","g","u","r",","," ","m","i","n","t">>,
     price |->
        <<"8","EURO">>,
     is_vegan |-> TRUE],
    [name |->
        <<"F","a","t","t","o","u","s","h">>,
     description |->
        <<"T","o","m","a","t","o",","," ","l","e","t","t","u","c","e",",",
          " ","r","e","d"," ","c","a","b","b","a","g","e",","," ","r","a",
          "d","i","s","h",","," ","c","u","c","u","m","b","e","r",","," ",
          "o","n","i","o","n">>,
     price |->
        <<"8","EURO">>,
     is_vegan |-> TRUE],
    [name |->
        <<"F","a","l","a","f","e","l"," ","S","a","l","a","d">>,
     description |->
        <<"F","a","l","a","f","e","l",","," ","l","e","t","t","u","c","e",
          ","," ","c","u","c","u","m","b","e","r",","," ","t","o","m","a",
          "t","o",","," ","p","i","c","k","l","e","s",","," ","t","a","h",
          "i","n","i">>,
     price |->
        <<"1","3",",","5","0","EURO">>,
     is_vegan |-> TRUE]
  >>

\* the builder calls of main, in program order
main_calls ==
  <<[op |-> "add_cover_page", logo_path |-> main_logo_path],
    [op |-> "add_section", items |-> cold_mezzes,
     title |-> <<"C","o","l","d"," ","M","e","z","z","e","s">>],
    [op |-> "add_section", items |-> warm_mezzes,
     title |-> <<"W","a","r","m"," ","M","e","z","z","e","s">>],
    [op |-> "add_info_box",
     text |-> <<"A","l","l"," ","t","a","s","t","i","n","g"," ","m","e","n","u","s",
      " ","s","e","r","v","e"," ","2"," ","p","e","o","p","l","e">>],
    [op |-> "add_section", items |-> tasting_menus,
     title |-> <<"T","a","s","t","i","n","g"," ","M","e","n","u","s"," ","/"," ","2",
      " ","P","e","o","p","l","e">>],
    [op |-> "add_section", items |-> dishes,
     title |-> <<"D","i","s","h","e","s">>],
    [op |-> "add_info_box",
     text |-> <<"A","l","l"," ","s","k","e","w","e","r","s"," ","s","e","r","v","e",
      "d"," ","w","i","t","h"," ","g","a","r","l","i","c"," ","s","a","u",
      "c","e"," ","a","n","d"," ","p","i","c","k","l","e","s">>],
    [op |-> "add_section", items |-> skewers,
     title |-> <<"S","k","e","w","e","r","s">>],
    [op |-> "add_info_box",
     text |-> <<"A","l","l"," ","d","i","s","h","e","s"," ","a","r","e"," ","s","e",
      "r","v","e","d"," ","w","i","t","h"," ","L","e","b","a","n","e","s",
      "e"," ","b","r","e","a","d">>],
    [op |-> "add_section", items |-> lunch_dishes,
     title |-> <<"L","u","n","c","h"," ","D","i","s","h","e","s">>],
    [op |-> "add_section", items |-> sandwiches,
     title |-> <<"S","a","n","d","w","i","c","h"," ","+"," ","S","a","l","a","d"," ",
      "F","o","r","m","u","l","a","s">>],
    [op |-> "add_section", items |-> salads,
     title |-> <<"S","a","l","a","d","s">>],
    [op |-> "add_contact_page", logo_path |-> main_logo_path]>>

main_filename == "east_west_menu.pdf"

MainInit ==
    /\ new_generator
    /\ files \in SUBSET AssetPaths
    /\ pc = "main"
    /\ out = <<>>
    /\ exit_code = -1
    /\ html_idle

\* a variant of main_advance that reaches build one builder call early: C8 must
\* tell it from main_advance
main_advance_early ==
    /\ ncalls' = ncalls + 1
    /\ IF raised' # "none"
       THEN pc' = "crashed" /\ exit_code' = 1
       ELSE /\ pc' = IF ncalls + 2 < Len(main_calls) THEN "main" ELSE "build"
            /\ exit_code' = exit_code
    /\ UNCHANGED <<files, rendered, written, out, ret, renderer, weasyprint, error>>

\* the statement of main that follows builder call number ncalls + 1; an
\* exception leaves main and the script uncaught
main_advance ==
    /\ ncalls' = ncalls + 1
    /\ IF raised' # "none"
       THEN pc' = "crashed" /\ exit_code' = 1
       ELSE /\ pc' = IF ncalls + 1 < Len(main_calls) THEN "main" ELSE "build"
            /\ exit_code' = exit_code
    /\ UNCHANGED <<files, rendered, written, out, ret, renderer, weasyprint, error>>

\* the next builder call of main is a call of op
main_at(op) ==
    /\ pc = "main"
    /\ ncalls + 1 \in DOMAIN main_calls
    /\ main_calls[ncalls + 1].op = op

main_add_cover_page ==
    /\ main_at("add_cover_page")
    /\ add_cover_page(main_calls[ncalls + 1].logo_path)
    /\ main_advance

main_add_section ==
    /\ main_at("add_section")
    /\ add_section(main_calls[ncalls + 1].title, main_calls[ncalls + 1].items)
    /\ main_advance

main_add_info_box ==
    /\ main_at("add_info_box")
    /\ add_info_box(main_calls[ncalls + 1].text)
    /\ main_advance

main_add_contact_page ==
    /\ main_at("add_contact_page")
    /\ add_contact_page(main_calls[ncalls + 1].logo_path)
    /\ main_advance

\* a variant of main_build in a try block that swallows the renderer's
\* exception: C13 must tell it from main_build
main_build_caught ==
    /\ pc = "build"
    /\ rendered' = Append(rendered, story)
    /\ story' \in {story, <<>>}
    /\ \/ /\ written' = written \cup {main_filename}
          /\ pc' = "report"
          /\ exit_code' = exit_code
       \/ /\ written' \in {written, written \cup {main_filename}}
          /\ pc' = "report"
          /\ exit_code' = exit_code
    /\ UNCHANGED <<files, last, raised, ncalls, out, ret, renderer, weasyprint, error>>

\* pdf.build(): self.doc.build(self.story).  The renderer is handed the list
\* object itself, so it may leave it as it is or consume it; it returns after
\* writing the file, or raises, and the exception leaves main uncaught.
main_build ==
    /\ pc = "build"
    /\ rendered' = Append(rendered, story)
    /\ story' \in {story, <<>>}
    /\ \/ /\ written' = written \cup {main_filename}
          /\ pc' = "report"
          /\ exit_code' = exit_code
       \/ /\ written' \in {written, written \cup {main_filename}}
          /\ pc' = "crashed"
          /\ exit_code' = 1
    /\ UNCHANGED <<files, last, raised, ncalls, out, ret, renderer, weasyprint, error>>

\* the two print calls after build, and the normal end of the script
main_report ==
    /\ pc = "report"
    /\ out' = out \o <<"PDF menu generated successfully!",
                       "Saved to: east_west_menu.pdf">>
    /\ pc' = "done"
    /\ exit_code' = 0
    /\ UNCHANGED <<story, files, last, raised, ncalls, rendered, written,
                   ret, renderer, weasyprint, error>>

MainNext ==
    \/ main_add_cover_page
    \/ main_add_section
    \/ main_add_info_box
    \/ main_add_contact_page
    \/ main_build
    \/ main_report

MainSpec == MainInit /\ [][MainNext]_vars

-----------------------------------------------------------------------------
(* HtmlSpec: one run of generate_menu_from_html.py *)

\* os.path.join(os.path.dirname(__file__), 'menu_editor.html')
html_file == "menu_editor.html"

\* os.path.join(os.path.dirname(__file__), 'east_west_menu_final.pdf')
output_pdf == "east_west_menu_final.pdf"

\* the texts of the exceptions the renderer raises
RendererErrors == {"malformed HTML", "missing resource"}

HtmlInit ==
    /\ story = <<>>
    /\ last = [op |-> "none", base |-> 0, args |-> [filename |-> ""]]
    /\ raised = "none"
    /\ ncalls = 0
    /\ rendered = <<>>
    /\ written = {}
    /\ files \in SUBSET {html_file, output_pdf}
    /\ pc = "import"
    /\ out = <<>>
    /\ exit_code = -1
    /\ ret = "unset"
    /\ renderer = <<>>
    /\ weasyprint \in {"installed", "installable", "missing"}
    /\ error = ""

builder_unused == UNCHANGED <<story, last, raised, ncalls, rendered>>

\* lines 9-14: import the renderer; on ImportError print, run pip and import
\* again, and a second ImportError is not caught
import_weasyprint ==
    /\ pc = "import"
    /\ \/ /\ weasyprint = "installed"
          /\ UNCHANGED <<weasyprint, out, exit_code>>
          /\ pc' = "generate_pdf"
       \/ /\ weasyprint = "installable"
          /\ out' = Append(out, "Installing weasyprint...")
          /\ weasyprint' = "installed"
          /\ pc' = "generate_pdf"
          /\ exit_code' = exit_code
       \/ /\ weasyprint = "missing"
          /\ out' = Append(out, "Installing weasyprint...")
          /\ weasyprint' = weasyprint
          /\ pc' = "crashed"
          /\ exit_code' = 1
    /\ UNCHANGED <<files, written, ret, renderer, error>>
    /\ builder_unused

\* a variant of gp_check_input without the os.path.exists test: C4 must tell it
\* from gp_check_input
gp_check_input_unchecked ==
    /\ pc = "generate_pdf"
    /\ out' = out \o <<"Reading HTML from: " \o html_file, "Generating PDF...">>
    /\ ret' = ret
    /\ pc' = "CSS"
    /\ UNCHANGED <<files, written, exit_code, renderer, weasyprint, error>>
    /\ builder_unused

\* lines 19-30: the check of the input file
gp_check_input ==
    /\ pc = "generate_pdf"
    /\ IF ~ exists(html_file)
       THEN /\ out' = Append(out, "Error: HTML file not found at " \o html_file)
            /\ ret' = "False"
            /\ pc' = "exit"
       ELSE /\ out' = out \o <<"Reading HTML from: " \o html_file, "Generating PDF...">>
            /\ ret' = ret
            /\ pc' = "CSS"
    /\ UNCHANGED <<files, written, exit_code, renderer, weasyprint, error>>
    /\ builder_unused

\* a renderer call that returns
returns(call) ==
    /\ renderer' = Append(renderer, [call |-> call, ok |-> TRUE, error |-> ""])
    /\ error' = error

\* a variant of raises with no handler around the call: C5 must tell it from
\* raises
raises_uncaught(call, e) ==
    /\ renderer' = Append(renderer, [call |-> call, ok |-> FALSE, error |-> e])
    /\ error' = e
    /\ pc' = "crashed"

\* a renderer call that raises an exception with text e, caught at line 95
raises(call, e) ==
    /\ renderer' = Append(renderer, [call |-> call, ok |-> FALSE, error |-> e])
    /\ error' = e
    /\ pc' = "except"

\* lines 34-83: CSS(string=...)
gp_css ==
    /\ pc = "CSS"
    /\ \/ returns("CSS") /\ pc' = "HTML"
       \/ \E e \in RendererErrors : raises("CSS", e)
    /\ UNCHANGED <<files, written, out, exit_code, ret, weasyprint>>
    /\ builder_unused

\* line 86: HTML(filename=html_file)
gp_html ==
    /\ pc = "HTML"
    /\ \/ returns("HTML") /\ pc' = "write_pdf"
       \/ \E e \in RendererErrors : raises("HTML", e)
    /\ UNCHANGED <<files, written, out, exit_code, ret, weasyprint>>
    /\ builder_unused

\* lines 86-89: .write_pdf(output_pdf, stylesheets=[pdf_css]); a call that
\* raises may have begun to write the file
gp_write_pdf ==
    /\ pc = "write_pdf"
    /\ \/ /\ returns("write_pdf")
          /\ files' = files \cup {output_pdf}
          /\ written' = written \cup {output_pdf}
          /\ pc' = "success"
       \/ /\ \E e \in RendererErrors : raises("write_pdf", e)
          /\ \/ UNCHANGED <<files, written>>
             \/ /\ files' = files \cup {output_pdf}
                /\ written' = written \cup {output_pdf}
    /\ UNCHANGED <<out, exit_code, ret, weasyprint>>
    /\ builder_unused

\* lines 91-93; the check mark U+2713 is written "(CHECK)"
gp_success ==
    /\ pc = "success"
    /\ out' = out \o <<"(CHECK) PDF generated successfully!",
                       "(CHECK) Saved to: " \o output_pdf>>
    /\ ret' = "True"
    /\ pc' = "exit"
    /\ UNCHANGED <<files, written, exit_code, renderer, weasyprint, error>>
    /\ builder_unused

\* lines 95-97
gp_except ==
    /\ pc = "except"
    /\ out' = Append(out, "Error generating PDF: " \o error)
    /\ ret' = "False"
    /\ error' = ""
    /\ pc' = "exit"
    /\ UNCHANGED <<files, written, exit_code, renderer, weasyprint>>
    /\ builder_unused

\* a variant of script_exit that ignores the value generate_pdf returned: C6
\* must tell it from script_exit
script_exit_zero ==
    /\ pc = "exit"
    /\ exit_code' = 0
    /\ pc' = "done"
    /\ UNCHANGED <<files, written, out, ret, renderer, weasyprint, error>>
    /\ builder_unused

\* line 101: sys.exit(0 if success else 1)
script_exit ==
    /\ pc = "exit"
    /\ exit_code' = IF ret = "True" THEN 0 ELSE 1
    /\ pc' = "done"
    /\ UNCHANGED <<files, written, out, ret, renderer, weasyprint, error>>
    /\ builder_unused

HtmlNext ==
    \/ import_weasyprint
    \/ gp_check_input
    \/ gp_css
    \/ gp_html
    \/ gp_write_pdf
    \/ gp_success
    \/ gp_except
    \/ script_exit

HtmlSpec == HtmlInit /\ [][HtmlNext]_vars

-----------------------------------------------------------------------------
(* Reading the story *)

\* the blocks the latest builder call appended
appended == SubSeq(story, last.base + 1, Len(story))

IsPrefix(s, t) == Len(s) <= Len(t) /\ SubSeq(t, 1, Len(s)) = s

Range(s) == {s[i] : i \in DOMAIN s}

kinds(s) == [i \in DOMAIN s |-> s[i].kind]

\* an item block is a table of two rows
is_item_block(b) == b.kind = "Table" /\ Len(b.rows) = 2

name_cell(b) == b.rows[1][1]

price_cell(b) == b.rows[1][2]

desc_cell(b) == b.rows[2][1]

has_icon_column(b) == name_cell(b).kind = "Table"

\* the path of the icon an item block shows, "" when it shows none
icon_of(b) == IF has_icon_column(b) THEN name_cell(b).rows[1][1].path ELSE ""

\* the paragraph of an item block that holds the name
name_paragraph(b) == IF has_icon_column(b) THEN name_cell(b).rows[1][2] ELSE name_cell(b)

\* the text between "<b>" and "</b>"
unmarked(text) == SubSeq(text, 4, Len(text) - 4)

is_bold(text) ==
    /\ Len(text) >= 7
    /\ SubSeq(text, 1, 3) = <<"<", "b", ">">>
    /\ SubSeq(text, Len(text) - 3, Len(text)) = <<"<", "/", "b", ">">>

\* block b shows this name, description and price, each as given
shows(b, name, description, price) ==
    /\ is_item_block(b)
    /\ name_paragraph(b).kind = "Paragraph"
    /\ is_bold(name_paragraph(b).text)
    /\ unmarked(name_paragraph(b).text) = name
    /\ price_cell(b).kind = "Paragraph"
    /\ is_bold(price_cell(b).text)
    /\ unmarked(price_cell(b).text) = price
    /\ desc_cell(b).kind = "Paragraph"
    /\ desc_cell(b).text = description

-----------------------------------------------------------------------------
(* Claims on the builder, under Spec *)

well_formed_section ==
    /\ last.op = "add_section"
    /\ \A i \in DOMAIN last.args.items : has_required_keys(last.args.items[i])

\* C1: after add_section(title, items) with N >= 0 well-formed items, the call
\* has raised nothing and has appended exactly N item blocks, the i-th of which
\* shows the name, description and price of the i-th item as given; with N = 0
\* it has appended the three header tables and the two spacers only.
C1_SectionItemsInOrder ==
    well_formed_section =>
        LET items == last.args.items
            blocks == SelectSeq(appended, is_item_block)
        IN  /\ raised = "none"
            /\ Len(blocks) = Len(items)
            /\ \A i \in DOMAIN items :
                   shows(blocks[i], items[i].name, items[i].description,
                         items[i].price)
            /\ Len(appended) = 5 + 2 * Len(items)
            /\ items = <<>> =>
                   kinds(appended) = <<"Table", "Table", "Table", "Spacer", "Spacer">>

C1_Witness ==
    /\ well_formed_section
    /\ Len(last.args.items) = 2
    /\ last.args.items[1] # last.args.items[2]
    /\ last.base > 0
    /\ Len(SelectSeq(appended, is_item_block)) = 2

flagged_vegan == last.op = "add_menu_item" /\ last.args.is_vegan

selected_icon_missing ==
    /\ last.op = "add_menu_item"
    /\ \/ last.args.is_vegan /\ vegan_icon_path \notin files
       \/ /\ ~ last.args.is_vegan
          /\ last.args.is_vegetarian
          /\ vegetarian_icon_path \notin files

\* what add_menu_item appends for the same texts with no flag set
unflagged_blocks ==
    menu_item_blocks(last.args.name, last.args.description, last.args.price,
                     FALSE, FALSE)

name_only ==
    /\ raised = "none"
    /\ Len(appended) = 2
    /\ ~ has_icon_column(appended[1])
    /\ shows(appended[1], last.args.name, last.args.description, last.args.price)
    /\ price_cell(appended[1]) = price_cell(unflagged_blocks[1])
    /\ desc_cell(appended[1]) = desc_cell(unflagged_blocks[1])

call_blocks ==
    CASE last.op = "add_cover_page" -> cover_page_blocks(last.args.logo_path)
      [] last.op = "add_menu_item" ->
             menu_item_blocks(last.args.name, last.args.description,
                              last.args.price, last.args.is_vegan,
                              last.args.is_vegetarian)
      [] last.op = "add_section" ->
             section_result(<<>>, last.args.title, last.args.items).story
      [] last.op = "add_info_box" -> info_box_blocks(last.args.text)
      [] last.op = "add_contact_page" -> contact_page_blocks(last.args.logo_path)
      [] OTHER -> <<>>

\* C7: builder calls are accepted in any order: a call raises only for an item
\* of its own list that lacks a key, what it appends does not depend on the
\* story it finds, and every step keeps the story it finds as a prefix of the
\* story it leaves.
C7_AppendOnly ==
    /\ [](raised # "none" => last.op = "add_section" /\ ~ well_formed_section)
    /\ [](appended = call_blocks)
    /\ [][IsPrefix(story, story') /\ last'.base = Len(story)]_vars

\* a contact page first, a cover page after it
C7_Witness ==
    /\ ncalls = 2
    /\ last.op = "add_cover_page"
    /\ last.base > 0
    /\ story[1] = PageBreak
    /\ story[Len(story)] = PageBreak

logo_block(b) == b.kind = "Image"

\* C9: add_cover_page raises nothing; it appends the logo image, and the spacer
\* after it, exactly when the path is not empty and the file exists; the other
\* blocks are the same nine in the same order in both cases, and the last one
\* is a page break.
C9_CoverPage ==
    last.op = "add_cover_page" =>
        LET with_logo == last.args.logo_path # "" /\ last.args.logo_path \in files
            others == IF with_logo
                      THEN SubSeq(appended, 1, 3) \o SubSeq(appended, 6, Len(appended))
                      ELSE appended
        IN  /\ raised = "none"
            /\ with_logo <=> \E i \in DOMAIN appended : logo_block(appended[i])
            /\ with_logo =>
                   /\ Len(appended) = 11
                   /\ appended[4] = Image(last.args.logo_path, 12960, 12960)
                   /\ appended[5].kind = "Spacer"
            /\ kinds(others) = <<"Spacer", "Table", "Spacer", "Table", "Spacer",
                                 "Paragraph", "Spacer", "Table", "PageBreak">>
            /\ others[4].rows[1][1].text = cover_description
            /\ others[6].text = cover_location
            /\ others[2] = top_border /\ others[8] = bottom_border
            /\ appended[Len(appended)] = PageBreak

C9_Witness ==
    /\ last.op = "add_cover_page"
    /\ last.base > 0
    /\ \E i \in DOMAIN appended : logo_block(appended[i])

C9_WitnessMissingFile ==
    /\ last.op = "add_cover_page"
    /\ last.args.logo_path # ""
    /\ last.args.logo_path \notin files
    /\ Len(appended) = 9

\* the position in s of the only table whose single cell holds this text, 0
\* when there is none or more than one
position_of(s, text) ==
    LET at == {i \in DOMAIN s : /\ s[i].kind = "Table"
                                /\ Len(s[i].rows) = 1
                                /\ Len(s[i].rows[1]) = 1
                                /\ s[i].rows[1][1].kind = "Paragraph"
                                /\ s[i].rows[1][1].text = text}
    IN  IF Cardinality(at) = 1 THEN CHOOSE i \in at : TRUE ELSE 0

\* C10: add_contact_page raises nothing; the first block it appends is a page
\* break, the contact details come after it, the call to action after them,
\* and the footer logo, when the path is not empty and the file exists, is the
\* last block; without the logo the other ten blocks are the same, in the same
\* order.
C10_ContactPage ==
    last.op = "add_contact_page" =>
        LET with_logo == last.args.logo_path # "" /\ last.args.logo_path \in files
            others == IF with_logo
                      THEN SubSeq(appended, 1, Len(appended) - 1)
                      ELSE appended
            details == position_of(appended, contact_info)
            button == position_of(appended, button_text)
        IN  /\ raised = "none"
            /\ appended[1] = PageBreak
            /\ 1 < details /\ details < button /\ button < Len(appended)
            /\ with_logo <=> \E i \in DOMAIN appended : logo_block(appended[i])
            /\ with_logo =>
                   appended[Len(appended)] = Image(last.args.logo_path, 6480, 6480)
            /\ kinds(others) = <<"PageBreak", "Spacer", "Table", "Spacer", "Table",
                                 "Spacer", "Table", "Spacer", "Paragraph", "Spacer">>
            /\ others[3].rows[1][1].text = contact_title_text
            /\ others[9].text = footer_msg_text

C10_Witness ==
    /\ last.op = "add_contact_page"
    /\ last.base > 0
    /\ logo_block(appended[Len(appended)])

-----------------------------------------------------------------------------
(* Claims on a run of generate_menu.py, under MainSpec *)

\* the blocks builder call c of main appends
blocks_of(c) ==
    CASE c.op = "add_cover_page" -> cover_page_blocks(c.logo_path)
      [] c.op = "add_section" -> section_result(<<>>, c.title, c.items).story
      [] c.op = "add_info_box" -> info_box_blocks(c.text)
      [] c.op = "add_contact_page" -> contact_page_blocks(c.logo_path)

RECURSIVE blocks_of_calls(_)
\* the blocks of the first k builder calls of main, in call order
blocks_of_calls(k) ==
    IF k = 0 THEN <<>> ELSE blocks_of_calls(k - 1) \o blocks_of(main_calls[k])

\* C8: in a run of main the renderer is invoked at most once, and once when the
\* run gets past build; it is invoked after the last builder call, with the
\* blocks of every builder call in call order; once it has been invoked no
\* block is appended to the story.
C8_RenderedOnceAtEnd ==
    /\ [](Len(rendered) <= 1)
    /\ [](pc \in {"report", "done"} => Len(rendered) = 1)
    /\ [][rendered' # rendered =>
              /\ ncalls = Len(main_calls)
              /\ story = blocks_of_calls(Len(main_calls))
              /\ rendered' = <<story>>]_vars
    /\ [][rendered # <<>> => ncalls' = ncalls /\ Len(story') <= Len(story)]_vars

C8_Witness ==
    /\ pc = "done"
    /\ Len(rendered) = 1
    /\ rendered[1] = blocks_of_calls(Len(main_calls))
    /\ Len(SelectSeq(rendered[1], is_item_block)) = 43

-----------------------------------------------------------------------------
(* Claims on a run of generate_menu_from_html.py, under HtmlSpec *)

missing_input_line == "Error: HTML file not found at " \o html_file

success_lines ==
    {"(CHECK) PDF generated successfully!", "(CHECK) Saved to: " \o output_pdf}

\* C4: when the HTML file does not exist, generate_pdf goes from its call to its
\* return in one step without raising: it returns False, the line it prints
\* names the missing path, the renderer is never invoked and no file is
\* written or created.
C4_MissingInput ==
    html_file \notin files =>
        /\ renderer = <<>>
        /\ written = {}
        /\ error = ""
        /\ pc \in {"import", "crashed", "generate_pdf", "exit", "done"}
        /\ pc = "crashed" => ret = "unset"
        /\ pc \in {"exit", "done"} =>
               /\ ret = "False"
               /\ out # <<>>
               /\ out[Len(out)] = missing_input_line
               /\ Range(out) \cap success_lines = {}

C4_Witness ==
    /\ html_file \notin files
    /\ pc = "exit"
    /\ ret = "False"
    /\ missing_input_line \in Range(out)

renderer_raised == \E i \in DOMAIN renderer : ~ renderer[i].ok

\* C5: once a renderer call has raised, whichever of the three calls it is,
\* the script is in the handler or past it and never crashed; past the handler
\* generate_pdf has returned False, the last line printed holds the text of
\* the error, and no success line has been printed.
C5_RendererErrorCaught ==
    renderer_raised =>
        LET failure == renderer[Len(renderer)]
        IN  /\ ~ failure.ok
            /\ pc \in {"except", "exit", "done"}
            /\ Range(out) \cap success_lines = {}
            /\ pc = "except" => error = failure.error /\ ret = "unset"
            /\ pc \in {"exit", "done"} =>
                   /\ ret = "False"
                   /\ out[Len(out)] = "Error generating PDF: " \o failure.error
            /\ pc = "done" => exit_code = 1

C5_Witness ==
    /\ renderer_raised
    /\ renderer[Len(renderer)].call = "write_pdf"
    /\ output_pdf \in written
    /\ pc = "done"

C5_WitnessCss ==
    /\ renderer_raised
    /\ renderer[Len(renderer)].call = "CSS"
    /\ pc = "exit"

\* write_pdf has returned
pdf_written ==
    \E i \in DOMAIN renderer : renderer[i].call = "write_pdf" /\ renderer[i].ok

\* C6: a finished run has exit code 0 if and only if write_pdf returned, and a
\* positive exit code otherwise; the line that reports the output path is
\* printed in the runs where write_pdf returned, and in no other.
C6_ExitCode ==
    /\ ("(CHECK) Saved to: " \o output_pdf) \in Range(out) => pdf_written
    /\ pc \in {"done", "crashed"} =>
           /\ exit_code = 0 <=> pdf_written
           /\ ~ pdf_written => exit_code > 0
           /\ pdf_written <=> ("(CHECK) Saved to: " \o output_pdf) \in Range(out)
           /\ pdf_written => output_pdf \in files
    /\ pc \notin {"done", "crashed"} => exit_code = -1

C6_Witness ==
    /\ pc = "done"
    /\ exit_code = 0
    /\ pdf_written

C6_WitnessFailure ==
    /\ pc = "done"
    /\ exit_code = 1
    /\ renderer_raised

-----------------------------------------------------------------------------
(* Claims on add_section, under Spec *)

\* a section header block: a table whose only cell is a paragraph in the
\* section header style
is_section_header(b) ==
    /\ b.kind = "Table"
    /\ Len(b.rows) = 1
    /\ Len(b.rows[1]) = 1
    /\ b.rows[1][1].kind = "Paragraph"
    /\ b.rows[1][1].style = "SectionHeader"

\* the positions in s of the blocks that satisfy test
positions(s, test(_)) == {i \in DOMAIN s : test(s[i])}

flagged(item, key) == key \in DOMAIN item /\ item[key]

\* the latest call is add_section, it has appended one header block, the text
\* of that block is the title in upper case, and the block comes before every
\* item block the call has appended
one_header_first ==
    LET headers == positions(appended, is_section_header)
        item_positions == positions(appended, is_item_block)
    IN  /\ Cardinality(headers) = 1
        /\ \A h \in headers :
               /\ appended[h].rows[1][1].text = upper(last.args.title)
               /\ Len(appended[h].rows[1][1].text) = Len(last.args.title)
               /\ \A c \in Range(appended[h].rows[1][1].text) : c \notin Range(Lower)
               /\ last.args.title = <<"C","o","l","d"," ","M","e","z","z","e","s">> =>
                      appended[h].rows[1][1].text =
                          <<"C","O","L","D"," ","M","E","Z","Z","E","S">>
               /\ \A i \in item_positions : h < i

\* C11 as stated: each add_section call appends exactly one header block, with
\* the title in upper case, before every item block of the section, and every
\* item of the section that is flagged vegan is shown with the vegan icon.
C11_HeaderAndVeganMarker ==
    well_formed_section =>
        LET items == last.args.items
            blocks == SelectSeq(appended, is_item_block)
        IN  /\ one_header_first
            /\ \A i \in DOMAIN items :
                   flagged(items[i], "is_vegan") =>
                       /\ i <= Len(blocks)
                       /\ icon_of(blocks[i]) = vegan_icon_path

\* C11, amended: each add_section call appends exactly one header block, with
\* the title in upper case, before every item block of the section; the block
\* appended for an item flagged vegan shows the vegan icon when the vegan icon
\* file exists, and no vegan icon when it does not.
C11_HeaderAndVeganMarkerIfFile ==
    last.op = "add_section" =>
        LET items == last.args.items
            blocks == SelectSeq(appended, is_item_block)
        IN  /\ one_header_first
            /\ Len(blocks) <= Len(items)
            /\ \A i \in DOMAIN blocks :
                   flagged(items[i], "is_vegan") =>
                       (icon_of(blocks[i]) = vegan_icon_path
                            <=> vegan_icon_path \in files)

C11_Witness ==
    /\ last.op = "add_section"
    /\ last.base > 0
    /\ last.args.title = <<"C","o","l","d"," ","M","e","z","z","e","s">>
    /\ last.args.items = <<hummus>>
    /\ vegan_icon_path \in files
    /\ icon_of(appended[5]) = vegan_icon_path
    /\ appended[2].rows[1][1].text = <<"C","O","L","D"," ","M","E","Z","Z","E","S">>

-----------------------------------------------------------------------------
(* Claims on a failure of the renderer in generate_menu.py, under MainSpec *)

main_success_lines ==
    {"PDF menu generated successfully!", "Saved to: east_west_menu.pdf"}

\* the renderer was invoked and the script ended on its exception
build_failed == pc = "crashed" /\ rendered # <<>>

\* C13: when build raises, the exception leaves build and main uncaught: the
\* script ends as a crash and prints neither success line.  The lines are
\* printed only after build returned, having written the file.  No run has a
\* returned failure value, a positive exit status without a crash, or a crash
\* that is caught later.
C13_BuildFailureUncaught ==
    /\ [](build_failed =>
              /\ out = <<>>
              /\ exit_code = 1
              /\ Len(rendered) = 1)
    /\ [](Range(out) \cap main_success_lines # {} =>
              /\ pc = "done"
              /\ main_filename \in written
              /\ exit_code = 0)
    /\ [](pc \in {"report", "done"} => main_filename \in written)
    /\ [](ret = "unset" /\ error = "")
    /\ [](exit_code > 0 => pc = "crashed")
    /\ [][pc = "build" => pc' \in {"report", "crashed"}]_vars
    /\ [][pc = "crashed" => pc' = "crashed" /\ out' = out]_vars

C13_Witness ==
    /\ build_failed
    /\ ncalls = Len(main_calls)
    /\ rendered[1] = blocks_of_calls(Len(main_calls))
    /\ written = {}
    /\ out = <<>>
    /\ exit_code = 1

-----------------------------------------------------------------------------
(* Claims on an add_section call that raises, under Spec *)

\* the latest call is add_section with an item that lacks a required key
broken_section ==
    /\ last.op = "add_section"
    /\ \E i \in DOMAIN last.args.items : ~ has_required_keys(last.args.items[i])

\* the position of the first item of the latest call that lacks a required key
first_broken ==
    CHOOSE k \in DOMAIN last.args.items :
        /\ ~ has_required_keys(last.args.items[k])
        /\ \A i \in 1..(k - 1) : has_required_keys(last.args.items[i])

\* C14: when the k-th item of add_section is the first that lacks a required
\* key, the call raises KeyError and leaves, after the blocks the story held
\* before the call, the four header blocks and the item blocks of the first
\* k - 1 items, each followed by its spacer, and nothing for item k or a later
\* item, nor the closing spacer.
C14_SectionNotAtomic ==
    /\ [](broken_section =>
              LET items == last.args.items
                  k == first_broken
                  blocks == SelectSeq(appended, is_item_block)
              IN  /\ raised = "KeyError"
                  /\ Len(story) = last.base + 4 + 2 * (k - 1)
                  /\ SubSeq(appended, 1, 4) = section_header_blocks(last.args.title)
                  /\ Len(blocks) = k - 1
                  /\ \A i \in 1..(k - 1) :
                         /\ appended[3 + 2 * i] = blocks[i]
                         /\ shows(blocks[i], items[i].name, items[i].description,
                                  items[i].price)
                         /\ appended[4 + 2 * i].kind = "Spacer")
    /\ [][broken_section' /\ last' # last =>
              /\ last'.base = Len(story)
              /\ SubSeq(story', 1, Len(story)) = story]_vars

\* the second of two items lacks its price, after blocks of an earlier call
C14_Witness ==
    /\ broken_section
    /\ last.base > 0
    /\ Len(last.args.items) = 2
    /\ first_broken = 2
    /\ raised = "KeyError"
    /\ Len(appended) = 6

\* the first item lacks its price and a well-formed item follows it
C14_WitnessLaterItem ==
    /\ broken_section
    /\ first_broken = 1
    /\ Len(last.args.items) = 2
    /\ has_required_keys(last.args.items[2])
    /\ Len(appended) = 4

=============================================================================
